---------------------------- MODULE Spec2Model ----------------------------
(***************************************************************************)
(* A model of the thermo-file parser of src/src/database.rs.               *)
(*                                                                         *)
(* Text is a sequence of one-character strings.  Every reader of the       *)
(* source is an operator from a text to a nom result: a record whose       *)
(* field st is "Ok" (with the remainder rest and the value val), "Error"   *)
(* (recoverable: alt and opt try something else) or "Failure" (nom's cut:  *)
(* alt stops and the failure propagates).                                  *)
(*                                                                         *)
(* A decoded f64 is the exact decimal it denotes, [neg, mant, exp] with    *)
(* mant free of trailing zeros, so that two literals decode to the same    *)
(* record exactly when Rust's == holds of their values (all literals of    *)
(* the bounded inputs have fewer than 15 significant digits and exponents  *)
(* far inside the f64 range, where decoding is exact up to rounding that   *)
(* keeps distinct decimals distinct).  The words nan, inf and infinity,    *)
(* which nom's double also accepts, are outside every input alphabet used  *)
(* here.                                                                   *)
(***************************************************************************)
EXTENDS Integers, Sequences, FiniteSets, TLC

VARIABLES input, shape, pc, out

vars == <<input, shape, pc, out>>

---------------------------------------------------------------------------
(* Characters and text helpers                                             *)

DigitChars == <<"0", "1", "2", "3", "4", "5", "6", "7", "8", "9">>

Digit == {DigitChars[i] : i \in 1..10}

Upper == {"A", "B", "C", "D", "E", "F", "G", "H", "I", "J", "K", "L", "M",
          "N", "O", "P", "Q", "R", "S", "T", "U", "V", "W", "X", "Y", "Z"}

Lower == {"a", "b", "c", "d", "e", "f", "g", "h", "i", "j", "k", "l", "m",
          "n", "o", "p", "q", "r", "s", "t", "u", "v", "w", "x", "y", "z"}

\* char::is_alphabetic, on the ASCII range
Alphabetic == Upper \cup Lower

\* nom's space0 / space1: blank and tab
Space == {" ", "\t"}

\* nom's multispace0: blank, tab, carriage return, line feed
Multispace == {" ", "\t", "\r", "\n"}

\* char::is_whitespace (str::trim, split_whitespace), on the ASCII range
Whitespace == {" ", "\t", "\r", "\n", "\f"}

\* The text after the first n characters.
Drop(s, n) == SubSeq(s, n + 1, Len(s))

\* The first n characters.
Take(s, n) == SubSeq(s, 1, n)

\* Length of the longest prefix of s made of characters of S.
PrefixLen(s, S) ==
    IF \A i \in 1..Len(s) : s[i] \in S
    THEN Len(s)
    ELSE (CHOOSE i \in 1..Len(s) :
              s[i] \notin S /\ \A j \in 1..(i - 1) : s[j] \in S) - 1

\* Length of the longest prefix of s made of characters outside S.
PrefixLenNot(s, S) ==
    IF \A i \in 1..Len(s) : s[i] \notin S
    THEN Len(s)
    ELSE (CHOOSE i \in 1..Len(s) :
              s[i] \in S /\ \A j \in 1..(i - 1) : s[j] \notin S) - 1

StartsWith(s, t) == Len(t) <= Len(s) /\ Take(s, Len(t)) = t

\* str::trim_start
TrimStart(s) == Drop(s, PrefixLen(s, Whitespace))

\* The position of the last non-whitespace character of t, 0 when none.
LastNonWhitespace(t) ==
    IF \A i \in 1..Len(t) : t[i] \in Whitespace
    THEN 0
    ELSE CHOOSE i \in 1..Len(t) :
             t[i] \notin Whitespace
             /\ \A j \in (i + 1)..Len(t) : t[j] \in Whitespace

\* str::trim_end
TrimEnd(t) == Take(t, LastNonWhitespace(t))

\* str::trim
Trim(s) == TrimEnd(TrimStart(s))

\* str::split_whitespace().collect(): the maximal runs of non-whitespace
RECURSIVE SplitWhitespace(_)
SplitTrimmed(t) ==
    IF t = <<>> THEN <<>>
    ELSE <<Take(t, PrefixLenNot(t, Whitespace))>>
         \o SplitWhitespace(Drop(t, PrefixLenNot(t, Whitespace)))

SplitWhitespace(s) == SplitTrimmed(TrimStart(s))

---------------------------------------------------------------------------
(* Decoded numbers                                                         *)

DigitVal(c) == (CHOOSE d \in 1..10 : DigitChars[d] = c) - 1

\* The natural number a run of digits denotes.
RECURSIVE DigitsToNat(_)
DigitsToNat(ds) ==
    IF ds = <<>> THEN 0
    ELSE DigitsToNat(Take(ds, Len(ds) - 1)) * 10 + DigitVal(ds[Len(ds)])

RECURSIVE Normal(_, _, _)
Normal(neg, mant, exp) ==
    IF mant = 0 THEN [neg |-> FALSE, mant |-> 0, exp |-> 0]
    ELSE IF mant % 10 = 0 THEN Normal(neg, mant \div 10, exp + 1)
    ELSE [neg |-> neg, mant |-> mant, exp |-> exp]

\* 0.0, the default of every unparsed slot
Zero == [neg |-> FALSE, mant |-> 0, exp |-> 0]

\* An optional sign at the head of s, as the text it consumed.
SignOf(s) == IF s # <<>> /\ s[1] \in {"+", "-"} THEN <<s[1]>> ELSE <<>>

\* The number of digits of s from position i + 1 on.
DigitsAfter(s, i) == PrefixLen(Drop(s, i), Digit)

\* Whether the character of s at position i + 1 exists and is in S.
NextIn(s, i, S) == i < Len(s) /\ s[i + 1] \in S

\* str::parse::<f64>, on the text
\*   [sign] (digits ['.' digits*] | '.' digits) [('e'|'E') [sign] digits]
\* and an error on anything else.  The steps carry the positions reached:
\* i after the sign, j after the integer digits, k after the fraction, m
\* after the exponent mark and its sign.
StdExponent(s, i, j, k, m) ==
    IF (j - i) + (IF k > j THEN k - j - 1 ELSE 0) = 0
       \/ (m > k /\ DigitsAfter(s, m) = 0)
       \/ m + DigitsAfter(s, m) # Len(s)
    THEN [ok |-> FALSE, val |-> Zero]
    ELSE [ok |-> TRUE,
          val |-> Normal(SignOf(s) = <<"-">>,
                         DigitsToNat(SubSeq(s, i + 1, j) \o SubSeq(s, j + 2, k)),
                         (IF m > k /\ s[m] = "-"
                          THEN 0 - DigitsToNat(Drop(s, m))
                          ELSE DigitsToNat(Drop(s, m)))
                         - (IF k > j THEN k - j - 1 ELSE 0))]

StdFraction(s, i, j, k) ==
    StdExponent(s, i, j, k,
                IF NextIn(s, k, {"e", "E"})
                THEN k + 1 + Len(SignOf(Drop(s, k + 1)))
                ELSE k)

StdInteger(s, i, j) ==
    StdFraction(s, i, j,
                IF NextIn(s, j, {"."}) THEN j + 1 + DigitsAfter(s, j + 1) ELSE j)

StdSign(s, i) == StdInteger(s, i, i + DigitsAfter(s, i))

StdParse(s) == StdSign(s, Len(SignOf(s)))

---------------------------------------------------------------------------
(* nom results and the nom readers the source imports                      *)

Ok(rest, val) == [st |-> "Ok", rest |-> rest, val |-> val]

Err(kind) == [st |-> kind, rest |-> <<>>, val |-> <<>>]

\* tag(t)
tag(t, s) == IF StartsWith(s, t) THEN Ok(Drop(s, Len(t)), t) ELSE Err("Error")

\* char(c)
char(c, s) == IF s # <<>> /\ s[1] = c THEN Ok(Drop(s, 1), <<c>>) ELSE Err("Error")

multispace0(s) ==
    Ok(Drop(s, PrefixLen(s, Multispace)), Take(s, PrefixLen(s, Multispace)))

space0(s) == Ok(Drop(s, PrefixLen(s, Space)), Take(s, PrefixLen(s, Space)))

space1(s) ==
    IF PrefixLen(s, Space) = 0 THEN Err("Error")
    ELSE Ok(Drop(s, PrefixLen(s, Space)), Take(s, PrefixLen(s, Space)))

digit1(s) ==
    IF PrefixLen(s, Digit) = 0 THEN Err("Error")
    ELSE Ok(Drop(s, PrefixLen(s, Digit)), Take(s, PrefixLen(s, Digit)))

\* line_ending: "\n" or "\r\n"
line_ending(s) ==
    IF StartsWith(s, <<"\n">>) THEN Ok(Drop(s, 1), <<"\n">>)
    ELSE IF StartsWith(s, <<"\r", "\n">>) THEN Ok(Drop(s, 2), <<"\r", "\n">>)
    ELSE Err("Error")

\* take_until(c) for a one-character pattern: the text before the first c,
\* which is left unconsumed; an error when there is none.
take_until(c, s) ==
    IF PrefixLenNot(s, {c}) = Len(s) THEN Err("Error")
    ELSE Ok(Drop(s, PrefixLenNot(s, {c})), Take(s, PrefixLenNot(s, {c})))

\* take_while1(|c| c.is_alphabetic())
take_while1_alphabetic(s) ==
    IF PrefixLen(s, Alphabetic) = 0 THEN Err("Error")
    ELSE Ok(Drop(s, PrefixLen(s, Alphabetic)), Take(s, PrefixLen(s, Alphabetic)))

\* take_while1(|c| !c.is_whitespace())
take_while1_not_whitespace(s) ==
    IF PrefixLenNot(s, Whitespace) = 0 THEN Err("Error")
    ELSE Ok(Drop(s, PrefixLenNot(s, Whitespace)),
            Take(s, PrefixLenNot(s, Whitespace)))

\* opt(alt((char('+'), char('-')))): never fails
opt_sign(s) == Ok(Drop(s, Len(SignOf(s))), SignOf(s))

\* Length of the text alt(( (digit1, opt(('.', opt(digit1)))), ('.', digit1) ))
\* recognises at the head of a, 0 when neither alternative matches.
FloatBodyLen(a) ==
    IF DigitsAfter(a, 0) > 0
    THEN IF NextIn(a, DigitsAfter(a, 0), {"."})
         THEN DigitsAfter(a, 0) + 1 + DigitsAfter(a, DigitsAfter(a, 0) + 1)
         ELSE DigitsAfter(a, 0)
    ELSE IF NextIn(a, 0, {"."}) /\ DigitsAfter(a, 1) > 0
         THEN 1 + DigitsAfter(a, 1)
         ELSE 0

\* s.parse_to() on the recognised text, the first n characters of s
double_value(s, n, p) ==
    IF p.ok THEN [st |-> "Ok", rest |-> Drop(s, n), val |-> p.val]
    ELSE [st |-> "Error", rest |-> <<>>, val |-> <<>>]

\* opt(( alt(('e','E')), opt(sign), cut(digit1) )) at position n of s: an
\* exponent mark that no digit follows is a Failure (cut), not an Error.
double_exponent(s, n, m) ==
    IF ~NextIn(s, n, {"e", "E"}) THEN double_value(s, n, StdParse(Take(s, n)))
    ELSE IF DigitsAfter(s, m) = 0
         THEN [st |-> "Failure", rest |-> <<>>, val |-> <<>>]
         ELSE double_value(s, m + DigitsAfter(s, m),
                           StdParse(Take(s, m + DigitsAfter(s, m))))

double_body(s, i, n) ==
    IF n = 0 THEN [st |-> "Error", rest |-> <<>>, val |-> <<>>]
    ELSE double_exponent(s, i + n, i + n + 1 + Len(SignOf(Drop(s, i + n + 1))))

double_sign(s, i) == double_body(s, i, FloatBodyLen(Drop(s, i)))

\* nom's number::complete::double, without the words nan / inf / infinity:
\*   recognize(( opt(sign),
\*               alt(( (digit1, opt(('.', opt(digit1)))), ('.', digit1) )),
\*               opt(( alt(('e','E')), opt(sign), cut(digit1) )) ))
\* and the recognised text decoded by str::parse.
double(s) == double_sign(s, Len(SignOf(s)))

---------------------------------------------------------------------------
(* The readers of src/src/database.rs                                      *)

\* recognize((digit1, opt((char('.'), digit1)))): the mantissa
MantissaLen(s) ==
    IF NextIn(s, DigitsAfter(s, 0), {"."}) /\ DigitsAfter(s, DigitsAfter(s, 0) + 1) > 0
    THEN DigitsAfter(s, 0) + 1 + DigitsAfter(s, DigitsAfter(s, 0) + 1)
    ELSE DigitsAfter(s, 0)

recognize_mantissa(s) ==
    IF DigitsAfter(s, 0) = 0 THEN Err("Error")
    ELSE Ok(Drop(s, MantissaLen(s)), Take(s, MantissaLen(s)))

\* A formatting that loses the exponent's sign.
scientific_str_NoExpSign(sign, mantissa, exp_sign, exponent) ==
    sign \o mantissa \o <<"E">> \o exponent

\* format!("{}{}E{}{}", sign_str, mantissa, exp_sign_str, exponent)
scientific_str(sign, mantissa, exp_sign, exponent) ==
    sign \o mantissa \o <<"E">> \o exp_sign \o exponent

\* parse_scientific_d, one step for each let of the source; a step takes
\* the values read so far and the result of the reader just applied.
scientific_d_value(rest, p) ==
    IF p.ok THEN Ok(rest, p.val) ELSE Err("Error")

scientific_d_exponent(sign, mantissa, exp_sign, exponent) ==
    IF exponent.st # "Ok" THEN Err(exponent.st)
    ELSE scientific_d_value(exponent.rest,
             StdParse(scientific_str(sign, mantissa, exp_sign, exponent.val)))

scientific_d_exp_sign(sign, mantissa, exp_sign) ==
    scientific_d_exponent(sign, mantissa, exp_sign.val, digit1(exp_sign.rest))

scientific_d_D(sign, mantissa, d) ==
    IF d.st # "Ok" THEN Err(d.st)
    ELSE scientific_d_exp_sign(sign, mantissa, opt_sign(d.rest))

scientific_d_mantissa(sign, mantissa) ==
    IF mantissa.st # "Ok" THEN Err(mantissa.st)
    ELSE scientific_d_D(sign, mantissa.val, char("D", mantissa.rest))

scientific_d_sign(sign) ==
    scientific_d_mantissa(sign.val, recognize_mantissa(sign.rest))

parse_scientific_d(s) == scientific_d_sign(opt_sign(s))

\* alt((parse_scientific_d, double)): the second reader is tried only on an
\* Error of the first.
alt_float(s, first) == IF first.st = "Error" THEN double(s) ELSE first

parse_float(s) == alt_float(s, parse_scientific_d(s))

\* delimited(space0, parse_float, space0)
delimited_float(r) ==
    IF r.st # "Ok" THEN r ELSE Ok(space0(r.rest).rest, r.val)

parse_spaced_float(s) == delimited_float(parse_float(space0(s).rest))

\* "thermo"
thermo == <<"t", "h", "e", "r", "m", "o">>

\* parse_header: the marker, whitespace, four spaced numbers, the rest of
\* the line as the date (trimmed), the line terminator.  One step for each
\* let of the source.
header_line_ending(temps, date, le) ==
    IF le.st # "Ok" THEN Err(le.st)
    ELSE Ok(le.rest, [temp_ranges |-> temps, date |-> Trim(date)])

header_date(temps, date) ==
    IF date.st # "Ok" THEN Err(date.st)
    ELSE header_line_ending(temps, date.val, line_ending(date.rest))

header_temp4(t1, t2, t3, temp4) ==
    IF temp4.st # "Ok" THEN Err(temp4.st)
    ELSE header_date(<<t1, t2, t3, temp4.val>>,
                     take_until("\n", space0(temp4.rest).rest))

header_temp3(t1, t2, temp3) ==
    IF temp3.st # "Ok" THEN Err(temp3.st)
    ELSE header_temp4(t1, t2, temp3.val, parse_spaced_float(temp3.rest))

header_temp2(t1, temp2) ==
    IF temp2.st # "Ok" THEN Err(temp2.st)
    ELSE header_temp3(t1, temp2.val, parse_spaced_float(temp2.rest))

header_temp1(temp1) ==
    IF temp1.st # "Ok" THEN Err(temp1.st)
    ELSE header_temp2(temp1.val, parse_spaced_float(temp1.rest))

header_tag(m) ==
    IF m.st # "Ok" THEN Err(m.st)
    ELSE header_temp1(parse_spaced_float(multispace0(m.rest).rest))

\* The marker compared without regard to the case of its first letter.
parse_header_NoCase(s) ==
    header_tag(IF StartsWith(s, thermo) \/ StartsWith(s, <<"T">> \o Drop(thermo, 1))
               THEN Ok(Drop(s, Len(thermo)), thermo)
               ELSE Err("Error"))

parse_header(s) == header_tag(tag(thermo, s))

\* The loop of parse_elements: (symbol, count) pairs until the text is used
\* up, or only blanks are left, or a symbol or its count cannot be read
\* (if let Ok(..) = .. else break).  It never fails.
RECURSIVE elements_loop(_, _)
elements_count(remaining, elements, element, count) ==
    IF count.st # "Ok" THEN Ok(remaining, elements)
    ELSE elements_loop(count.rest, Append(elements, <<element, count.val>>))

elements_symbol(remaining, elements, element) ==
    IF element.st # "Ok" THEN Ok(remaining, elements)
    ELSE elements_count(remaining, elements, element.val,
                        parse_spaced_float(element.rest))

elements_space0(remaining, elements, rest) ==
    IF rest = <<>> THEN Ok(remaining, elements)
    ELSE elements_symbol(remaining, elements, take_while1_alphabetic(rest))

elements_loop(remaining, elements) ==
    IF remaining = <<>> THEN Ok(remaining, elements)
    ELSE elements_space0(remaining, elements, space0(remaining).rest)

parse_elements(s) == elements_loop(s, <<>>)

\* parts[parts.len() - k].parse().unwrap_or(0.0)
unwrap_or_zero(p) == IF p.ok THEN p.val ELSE Zero

\* if parts.len() >= k { parts[parts.len() - k].parse().unwrap_or(0.0) }
\* else { 0.0 }
tail_number(parts, k) ==
    IF Len(parts) >= k
    THEN unwrap_or_zero(StdParse(parts[Len(parts) - k + 1]))
    ELSE Zero

\* take_until(" "): the description is the text before the next blank
description_part(s) == take_until(" ", s)

\* parse_species_header, one step for each let of the source.
species_header_parts(name, description, rest, elements, parts) ==
    Ok(rest,
       [name |-> name,
        description |-> description,
        elements |-> elements,
        molecular_weight |-> tail_number(parts, 2),
        heat_of_formation |-> tail_number(parts, 1)])

species_header_elements(name, description, rest, el) ==
    IF el.st # "Ok" THEN Err(el.st)
    ELSE species_header_parts(name, description, rest, el.val,
                              SplitWhitespace(Trim(el.rest)))

species_header_line_ending(name, description, rest_of_line, le) ==
    IF le.st # "Ok" THEN Err(le.st)
    ELSE species_header_elements(name, description, le.rest,
                                 parse_elements(rest_of_line))

species_header_rest_of_line(name, description, rest_of_line) ==
    IF rest_of_line.st # "Ok" THEN Err(rest_of_line.st)
    ELSE species_header_line_ending(name, description, rest_of_line.val,
                                    line_ending(rest_of_line.rest))

species_header_space2(name, description, sp) ==
    IF sp.st # "Ok" THEN Err(sp.st)
    ELSE species_header_rest_of_line(name, description, take_until("\n", sp.rest))

species_header_description(name, description) ==
    IF description.st # "Ok" THEN Err(description.st)
    ELSE species_header_space2(name, description.val, space1(description.rest))

species_header_space1(name, sp) ==
    IF sp.st # "Ok" THEN Err(sp.st)
    ELSE species_header_description(name, description_part(sp.rest))

species_header_name(name) ==
    IF name.st # "Ok" THEN Err(name.st)
    ELSE species_header_space1(name.val, space1(name.rest))

parse_species_header(s) == species_header_name(take_while1_not_whitespace(s))

\* if let Ok((_, val)) = parse_scientific_d(part) { slot = val }: the value
\* a token gives its slot, the initial 0.0 when it does not decode.
decoded(r) == IF r.st = "Ok" THEN r.val ELSE Zero

\* The slot the token at index i fills, 0.0 when the line has no such token.
decoded_at(parts, i) ==
    IF i < Len(parts) THEN decoded(parse_scientific_d(parts[i + 1])) ELSE Zero

\* Slots filled from the decodable tokens only, so that a token after an
\* undecodable one moves down a slot.
line1_coefficients_Shifted(coeff1_parts) ==
    [i \in 0..4 |->
        decoded_at(SelectSeq(coeff1_parts,
                             LAMBDA p : parse_scientific_d(p).st = "Ok"), i)]

\* for (i, part) in coeff1_parts.iter().take(5).enumerate(): slots 0..4
line1_coefficients(coeff1_parts) ==
    [i \in 0..4 |-> decoded_at(coeff1_parts, i)]

\* for (i, part) in coeff2_parts.iter().take(2).enumerate(): slots 5..6
line2_coefficients(coeff2_parts) ==
    [i \in 5..6 |-> decoded_at(coeff2_parts, i - 5)]

\* The last two tokens taken as soon as the line has two tokens.
integration_constants_FromTwo(coeff2_parts) ==
    IF Len(coeff2_parts) >= 2
    THEN [i \in 0..1 |-> decoded_at(coeff2_parts, Len(coeff2_parts) - 2 + i)]
    ELSE [i \in 0..1 |-> Zero]

\* if coeff2_parts.len() >= 4: the last two tokens; else the initial zeros
integration_constants(coeff2_parts) ==
    IF Len(coeff2_parts) >= 4
    THEN [i \in 0..1 |-> decoded_at(coeff2_parts, Len(coeff2_parts) - 2 + i)]
    ELSE [i \in 0..1 |-> Zero]

\* The array of 7 coefficients: slots 0..4 from line 1, 5..6 from line 2.
coefficients_of(c1, c2) == [i \in 0..6 |-> IF i < 5 THEN c1[i] ELSE c2[i]]

\* parse_temperature_range, one step for each let of the source.
temperature_range_parts(rest, temp_low, temp_high, coeff1_parts, coeff2_parts) ==
    Ok(rest,
       [temp_low |-> temp_low,
        temp_high |-> temp_high,
        coefficients |-> coefficients_of(line1_coefficients(coeff1_parts),
                                         line2_coefficients(coeff2_parts)),
        integration_constants |-> integration_constants(coeff2_parts)])

temperature_range_line_ending3(temp_low, temp_high, coeff_line1, coeff_line2, le) ==
    IF le.st # "Ok" THEN Err(le.st)
    ELSE temperature_range_parts(le.rest, temp_low, temp_high,
                                 SplitWhitespace(Trim(coeff_line1)),
                                 SplitWhitespace(Trim(coeff_line2)))

temperature_range_coeff_line2(temp_low, temp_high, coeff_line1, coeff_line2) ==
    IF coeff_line2.st # "Ok" THEN Err(coeff_line2.st)
    ELSE temperature_range_line_ending3(temp_low, temp_high, coeff_line1,
                                        coeff_line2.val,
                                        line_ending(coeff_line2.rest))

temperature_range_line_ending2(temp_low, temp_high, coeff_line1, le) ==
    IF le.st # "Ok" THEN Err(le.st)
    ELSE temperature_range_coeff_line2(temp_low, temp_high, coeff_line1,
                                       take_until("\n", le.rest))

temperature_range_coeff_line1(temp_low, temp_high, coeff_line1) ==
    IF coeff_line1.st # "Ok" THEN Err(coeff_line1.st)
    ELSE temperature_range_line_ending2(temp_low, temp_high, coeff_line1.val,
                                        line_ending(coeff_line1.rest))

temperature_range_line_ending1(temp_low, temp_high, le) ==
    IF le.st # "Ok" THEN Err(le.st)
    ELSE temperature_range_coeff_line1(temp_low, temp_high,
                                       take_until("\n", le.rest))

temperature_range_metadata(temp_low, temp_high, meta) ==
    IF meta.st # "Ok" THEN Err(meta.st)
    ELSE temperature_range_line_ending1(temp_low, temp_high,
                                        line_ending(meta.rest))

temperature_range_temp_high(temp_low, temp_high) ==
    IF temp_high.st # "Ok" THEN Err(temp_high.st)
    ELSE temperature_range_metadata(temp_low, temp_high.val,
                                    take_until("\n", temp_high.rest))

temperature_range_temp_low(temp_low) ==
    IF temp_low.st # "Ok" THEN Err(temp_low.st)
    ELSE temperature_range_temp_high(temp_low.val,
                                     parse_spaced_float(temp_low.rest))

parse_temperature_range(s) ==
    temperature_range_temp_low(parse_spaced_float(space0(s).rest))

\* The condition of the range loop of parse_species: the text does not start
\* (after whitespace) with END or with a letter, and is not blank.
more_ranges(remaining) ==
    /\ ~StartsWith(TrimStart(remaining), <<"E", "N", "D">>)
    /\ ~NextIn(TrimStart(remaining), 0, Alphabetic)
    /\ Trim(remaining) # <<>>

\* The failure of a range handed on to the caller of parse_species.
range_failed_Propagates(remaining, temperature_ranges) == Err("Error")

\* What the range loop does with a range that failed to parse: break, and
\* the species keeps the ranges read so far.
range_failed(remaining, temperature_ranges) == Ok(remaining, temperature_ranges)

RECURSIVE ranges_loop(_, _)
ranges_step(remaining, temperature_ranges, r) ==
    IF r.st = "Ok"
    THEN ranges_loop(r.rest, Append(temperature_ranges, r.val))
    ELSE range_failed(remaining, temperature_ranges)

ranges_loop(remaining, temperature_ranges) ==
    IF ~more_ranges(remaining) THEN Ok(remaining, temperature_ranges)
    ELSE ranges_step(remaining, temperature_ranges,
                     parse_temperature_range(remaining))

species_ranges(h, rs) ==
    IF rs.st # "Ok" THEN Err(rs.st)
    ELSE Ok(rs.rest,
            [name |-> h.name,
             description |-> h.description,
             elements |-> h.elements,
             molecular_weight |-> h.molecular_weight,
             heat_of_formation |-> h.heat_of_formation,
             temperature_ranges |-> rs.val])

species_header(h) ==
    IF h.st # "Ok" THEN Err(h.st)
    ELSE species_ranges(h.val, ranges_loop(h.rest, <<>>))

parse_species(s) == species_header(parse_species_header(s))

\* many0(parse_species): collect while the reader succeeds; an Error ends
\* the collection, a Failure propagates, and a success that consumed
\* nothing is nom's Many0 error.
RECURSIVE many0_species(_, _)
many0_step(s, acc, r) ==
    IF r.st = "Error" THEN Ok(s, acc)
    ELSE IF r.st = "Failure" THEN Err("Failure")
    ELSE IF Len(r.rest) = Len(s) THEN Err("Error")
    ELSE many0_species(r.rest, Append(acc, r.val))

many0_species(s, acc) == many0_step(s, acc, parse_species(s))

\* parse_thermo_file, one step for each let of the source.
thermo_file_species(header, species) ==
    IF species.st # "Ok" THEN Err(species.st)
    ELSE Ok(multispace0(species.rest).rest,
            [header |-> header, species |-> species.val])

thermo_file_header(header) ==
    IF header.st # "Ok" THEN Err(header.st)
    ELSE thermo_file_species(header.val, many0_species(header.rest, <<>>))

parse_thermo_file(s) == thermo_file_header(parse_header(multispace0(s).rest))

---------------------------------------------------------------------------
(* Numeric literals: every text over NumChars of at most MaxNumLen         *)
(* characters is handed to parse_scientific_d and to parse_float.          *)

MaxNumLen == 7

NumChars == {"1", "0", ".", "D", "+", "-"}

NoResult == [op |-> "none", res |-> Err("Error")]

Init ==
    /\ input = <<>>
    /\ shape = <<>>
    /\ pc = "read"
    /\ out = NoResult

\* The caller's buffer grows by one character.
NumAppend ==
    /\ pc = "read"
    /\ Len(input) < MaxNumLen
    /\ \E c \in NumChars : input' = Append(input, c)
    /\ UNCHANGED <<shape, pc, out>>

CallParseScientificD ==
    /\ pc = "read"
    /\ pc' = "done"
    /\ out' = [op |-> "parse_scientific_d", res |-> parse_scientific_d(input)]
    /\ UNCHANGED <<input, shape>>

CallParseFloat ==
    /\ pc = "read"
    /\ pc' = "done"
    /\ out' = [op |-> "parse_float", res |-> parse_float(input)]
    /\ UNCHANGED <<input, shape>>

NumNext == NumAppend \/ CallParseScientificD \/ CallParseFloat

SpecNum == Init /\ [][NumNext]_vars

\* The text t with every 'D' replaced by 'E'.
ReplaceDE(t) == [i \in 1..Len(t) |-> IF t[i] = "D" THEN "E" ELSE t[i]]

AllDigits(t) == t # <<>> /\ \A i \in 1..Len(t) : t[i] \in Digit

\* digits ['.' digits]
IsMantissaText(t) ==
    \/ AllDigits(t)
    \/ \E k \in 1..Len(t) :
           t[k] = "." /\ AllDigits(Take(t, k - 1)) /\ AllDigits(Drop(t, k))

\* [sign] digits ['.' digits] 'D' [sign] digits
IsDLiteral(t) ==
    \E k \in 1..Len(t) :
        /\ t[k] = "D"
        /\ IsMantissaText(Drop(Take(t, k - 1), Len(SignOf(t))))
        /\ AllDigits(Drop(t, k + Len(SignOf(Drop(t, k)))))

\* Length of the longest D-exponent literal s starts with, 0 when none.
DLiteralLen(s) ==
    IF \E k \in 1..Len(s) : IsDLiteral(Take(s, k))
    THEN CHOOSE k \in 1..Len(s) :
             IsDLiteral(Take(s, k))
             /\ \A j \in (k + 1)..Len(s) : ~IsDLiteral(Take(s, j))
    ELSE 0

\* C2: on every text that starts with a literal [sign] digits ['.' digits]
\* 'D' [sign] digits, parse_scientific_d and parse_float both succeed, leave
\* exactly the text after the exponent digits, and return what str::parse
\* gives for the literal with 'D' replaced by 'E'.
C2_DLiteralDecodedAsE ==
    (pc = "done" /\ DLiteralLen(input) > 0) =>
        LET k == DLiteralLen(input)
        IN  out.res = Ok(Drop(input, k), StdParse(ReplaceDE(Take(input, k))).val)

\* C2 happens: parse_float has read a literal with a fraction and a signed
\* exponent that is followed by more text.
C2_Witness ==
    /\ pc = "done"
    /\ out.op = "parse_float"
    /\ DLiteralLen(input) \in 5..(Len(input) - 1)
    /\ \E i \in 1..DLiteralLen(input) : input[i] = "."
    /\ \E i \in 1..DLiteralLen(input) : input[i] = "D" /\ input[i + 1] = "-"
    /\ out.res.st = "Ok"
    /\ out.res.val.exp < 0

---------------------------------------------------------------------------
(* Headers: the buffer is written field by field (leading whitespace, the  *)
(* marker and the whitespace after it, up to MaxHeaderNums numeric fields, *)
(* the rest of the line and its terminator, the text after the line), each *)
(* field drawn from a small set, and parse_header or parse_thermo_file is  *)
(* called on the buffer at any point.  shape records the fields written.   *)

MaxHeaderNums == 4

HLeads ==
    { <<>>,    \* ''
      <<" ", "\r", "\n", "\t">> }    \* ' \r\n\t'

HMarkers ==
    { <<"t", "h", "e", "r", "m", "o">>,    \* 'thermo'
      <<"T", "h", "e", "r", "m", "o">>,    \* 'Thermo'
      <<"t", "h", "e", "r", "m">> }    \* 'therm'

HGaps ==
    { <<" ">>,    \* ' '
      <<" ", "\n", " ", " ">> }    \* ' \n  '

HNumFields ==
    { <<"2", "0", " ">>,    \* '20 '
      <<"2", ".", "5", "0", "\t", " ">>,    \* '2.50\t '
      <<"1", "D", "1", " ">>,    \* '1D1 '
      <<"4">> }    \* '4'

HTexts ==
    { <<>>,    \* ''
      <<"9", "/", "0", "9", "/", "0", "4", " ">>,    \* '9/09/04 '
      <<"e", "/", "x">>,    \* 'e/x'
      <<" ", "a", " ", "b">> }    \* ' a b'

HEols ==
    { <<"\n">>,    \* '\n'
      <<"\r", "\n">> }    \* '\r\n'

HTails ==
    { <<"N", "2", " ", "d", " ", "x", "\n">>,    \* 'N2 d x\n'
      <<"\n", " ", "x">> }    \* '\n x'

Last(q) == q[Len(q)]

CountOf(q, x) == Cardinality({i \in 1..Len(q) : q[i] = x})

HdrLead ==
    /\ pc = "read" /\ shape = <<>>
    /\ \E l \in HLeads : input' = input \o l
    /\ shape' = <<"lead">>
    /\ UNCHANGED <<pc, out>>

HdrMarker ==
    /\ pc = "read" /\ shape = <<"lead">>
    /\ \E m \in HMarkers, g \in HGaps : input' = input \o m \o g
    /\ shape' = Append(shape, "marker")
    /\ UNCHANGED <<pc, out>>

HdrNumber ==
    /\ pc = "read" /\ shape # <<>> /\ Last(shape) \in {"marker", "number"}
    /\ CountOf(shape, "number") < MaxHeaderNums
    /\ \E n \in HNumFields : input' = input \o n
    /\ shape' = Append(shape, "number")
    /\ UNCHANGED <<pc, out>>

HdrText ==
    /\ pc = "read" /\ shape # <<>> /\ Last(shape) \in {"marker", "number"}
    /\ \E t \in HTexts, e \in HEols : input' = input \o t \o e
    /\ shape' = Append(shape, "text")
    /\ UNCHANGED <<pc, out>>

HdrTail ==
    /\ pc = "read" /\ shape # <<>> /\ Last(shape) = "text"
    /\ \E t \in HTails : input' = input \o t
    /\ shape' = Append(shape, "tail")
    /\ UNCHANGED <<pc, out>>

CallParseHeader ==
    /\ pc = "read"
    /\ pc' = "done"
    /\ out' = [op |-> "parse_header", res |-> parse_header(input)]
    /\ UNCHANGED <<input, shape>>

CallParseThermoFile ==
    /\ pc = "read"
    /\ pc' = "done"
    /\ out' = [op |-> "parse_thermo_file", res |-> parse_thermo_file(input)]
    /\ UNCHANGED <<input, shape>>

HdrNext ==
    \/ HdrLead \/ HdrMarker \/ HdrNumber \/ HdrText \/ HdrTail
    \/ CallParseHeader \/ CallParseThermoFile

SpecHeader == Init /\ [][HdrNext]_vars

IsNumLiteral(t) == IsDLiteral(t) \/ StdParse(t).ok

\* Length of the longest numeric literal s starts with, 0 when none.
NumLiteralLen(s) ==
    IF \E k \in 1..Len(s) : IsNumLiteral(Take(s, k))
    THEN CHOOSE k \in 1..Len(s) :
             IsNumLiteral(Take(s, k))
             /\ \A j \in (k + 1)..Len(s) : ~IsNumLiteral(Take(s, j))
    ELSE 0

\* The value a numeric literal denotes.
LiteralValue(t) ==
    IF IsDLiteral(t) THEN StdParse(ReplaceDE(t)).val ELSE StdParse(t).val

\* The numeric literal at the head of s, after optional blanks and tabs.
LiteralAt(s) ==
    LET a == Drop(s, PrefixLen(s, Space))
        k == NumLiteralLen(a)
    IN  [ok |-> k > 0, val |-> LiteralValue(Take(a, k)), rest |-> Drop(a, k)]

\* The header the text s spells when it has the form of C3: thermo,
\* whitespace, four numeric literals separated by blanks or tabs, text up to
\* a line terminator.
HeaderForm(s) ==
    LET a  == Drop(s, Len(thermo))
        n1 == LiteralAt(Drop(a, PrefixLen(a, Multispace)))
        n2 == LiteralAt(n1.rest)
        n3 == LiteralAt(n2.rest)
        n4 == LiteralAt(n3.rest)
        nl == PrefixLenNot(n4.rest, {"\n"})
    IN  [ok |-> /\ StartsWith(s, thermo)
                /\ n1.ok /\ NextIn(n1.rest, 0, Space)
                /\ n2.ok /\ NextIn(n2.rest, 0, Space)
                /\ n3.ok /\ NextIn(n3.rest, 0, Space)
                /\ n4.ok /\ nl < Len(n4.rest),
         temp_ranges |-> <<n1.val, n2.val, n3.val, n4.val>>,
         date |-> Trim(Take(n4.rest, nl)),
         rest |-> Drop(n4.rest, nl + 1)]

\* C3: on a text of that form parse_header succeeds with the four decoded
\* numbers in order, the trimmed rest of their line as the date, and the
\* text after the line terminator as the remainder.
C3_HeaderParsed ==
    (pc = "done" /\ out.op = "parse_header" /\ HeaderForm(input).ok) =>
        out.res = Ok(HeaderForm(input).rest,
                     [temp_ranges |-> HeaderForm(input).temp_ranges,
                      date |-> HeaderForm(input).date])

---------------------------------------------------------------------------
(* Element compositions: every one-line fragment over ElemChars of at most *)
(* MaxElemLen characters is handed to parse_elements.                      *)

MaxElemLen == 7

ElemChars == {"N", "E", "D", "2", ".", " "}

ElemAppend ==
    /\ pc = "read"
    /\ Len(input) < MaxElemLen
    /\ \E c \in ElemChars : input' = Append(input, c)
    /\ UNCHANGED <<shape, pc, out>>

CallParseElements ==
    /\ pc = "read"
    /\ pc' = "done"
    /\ out' = [op |-> "parse_elements", res |-> parse_elements(input)]
    /\ UNCHANGED <<input, shape>>

ElemNext == ElemAppend \/ CallParseElements

SpecElements == Init /\ [][ElemNext]_vars

\* The maximal leading run of (symbol, count) pairs of s and the text after
\* the last complete pair: a symbol is a maximal run of letters, a count the
\* longest numeric literal after it, blanks and tabs around both skipped.
RECURSIVE LeadingPairs(_, _)
LeadingPairs(s, acc) ==
    LET a == Drop(s, PrefixLen(s, Space))
        n == PrefixLen(a, Alphabetic)
        c == LiteralAt(Drop(a, n))
    IN  IF n = 0 \/ ~c.ok
        THEN [pairs |-> acc, rest |-> s]
        ELSE LeadingPairs(Drop(c.rest, PrefixLen(c.rest, Space)),
                          Append(acc, <<Take(a, n), c.val>>))

\* C4: parse_elements never fails and returns the maximal leading run of
\* (symbol, count) pairs in order, duplicates kept, a count directly
\* followed by the next symbol accepted, and as remainder the text after
\* the last complete pair.
C4_MaximalLeadingPairs ==
    (pc = "done" /\ out.op = "parse_elements") =>
        out.res = Ok(LeadingPairs(input, <<>>).rest, LeadingPairs(input, <<>>).pairs)

---------------------------------------------------------------------------
(* Temperature ranges: the buffer is a block written line by line.  Line 1 *)
(* is drawn from RLine1s; lines 2 and 3 are written token by token, up to  *)
(* MaxLine2Tokens and MaxLine3Tokens tokens and MaxBlockTokens in all,     *)
(* each token with the blanks before it; parse_temperature_range is called *)
(* on the buffer at any point, also before a line has its terminator.      *)

MaxLine2Tokens == 6

MaxLine3Tokens == 4

MaxBlockTokens == 8

RLine1s ==
    { <<" ", "1", "D", "2", " ", "2", ".", "5", " ", "x", "\n">>,    \* ' 1D2 2.5 x\n'
      <<"1", " ", "\n">> }    \* '1 \n'

RTokens2 ==
    { <<" ", "1", "D", "0">>,    \* ' 1D0'
      <<"\t", "-", "2", ".", "5", "D", "1", "x">>,    \* '\t-2.5D1x'
      <<" ", " ", "1", ".", "5">> }    \* '  1.5'

RTokens3 ==
    { <<" ", "3", "D", "0">>,    \* ' 3D0'
      <<" ", " ", "x">> }    \* '  x'

RngLine1 ==
    /\ pc = "read" /\ shape = <<>>
    /\ \E l \in RLine1s : input' = input \o l
    /\ shape' = <<"line1">>
    /\ UNCHANGED <<pc, out>>

RngToken2 ==
    /\ pc = "read" /\ shape # <<>> /\ Last(shape) \in {"line1", "token2"}
    /\ CountOf(shape, "token2") < MaxLine2Tokens
    /\ CountOf(shape, "token2") + CountOf(shape, "token3") < MaxBlockTokens
    /\ \E t \in RTokens2 : input' = input \o t
    /\ shape' = Append(shape, "token2")
    /\ UNCHANGED <<pc, out>>

RngEnd2 ==
    /\ pc = "read" /\ shape # <<>> /\ Last(shape) \in {"line1", "token2"}
    /\ input' = input \o <<" ", "\r", "\n">>
    /\ shape' = Append(shape, "end2")
    /\ UNCHANGED <<pc, out>>

RngToken3 ==
    /\ pc = "read" /\ shape # <<>> /\ Last(shape) \in {"end2", "token3"}
    /\ CountOf(shape, "token3") < MaxLine3Tokens
    /\ CountOf(shape, "token2") + CountOf(shape, "token3") < MaxBlockTokens
    /\ \E t \in RTokens3 : input' = input \o t
    /\ shape' = Append(shape, "token3")
    /\ UNCHANGED <<pc, out>>

RngEnd3 ==
    /\ pc = "read" /\ shape # <<>> /\ Last(shape) \in {"end2", "token3"}
    /\ input' = input \o <<"\n">>
    /\ shape' = Append(shape, "end3")
    /\ UNCHANGED <<pc, out>>

CallParseTemperatureRange ==
    /\ pc = "read"
    /\ pc' = "done"
    /\ out' = [op |-> "parse_temperature_range",
               res |-> parse_temperature_range(input)]
    /\ UNCHANGED <<input, shape>>

RngNext ==
    \/ RngLine1 \/ RngToken2 \/ RngEnd2 \/ RngToken3 \/ RngEnd3
    \/ CallParseTemperatureRange

SpecRange == Init /\ [][RngNext]_vars

\* The positions of the line terminators of s, in order.
Newlines(s) == {p \in 1..Len(s) : s[p] = "\n"}

NthSmallest(S, n) == CHOOSE p \in S : Cardinality({q \in S : q < p}) = n - 1

\* The n-th line of s, without its terminator (s has at least n of them).
LineOf(s, n) ==
    SubSeq(s,
           IF n = 1 THEN 1 ELSE NthSmallest(Newlines(s), n - 1) + 1,
           NthSmallest(Newlines(s), n) - 1)

\* The positions where a whitespace-separated token of t starts.
TokenStarts(t) ==
    {p \in 1..Len(t) :
        t[p] \notin Whitespace /\ (p = 1 \/ t[p - 1] \in Whitespace)}

\* The token of t with index i (from 0), when t has more than i tokens.
TokenOf(t, i) ==
    LET p == NthSmallest(TokenStarts(t), i + 1)
    IN  Take(Drop(t, p - 1), PrefixLenNot(Drop(t, p - 1), Whitespace))

\* What the token of t with index i decodes to as a D-exponent literal:
\* the value of the literal at its head, 0.0 when there is no such token
\* or no such literal.
SlotFrom(t, i) ==
    LET starts == TokenStarts(t)
        token == TokenOf(t, i)
        k == DLiteralLen(token)
    IN  IF i >= 0 /\ i < Cardinality(starts) /\ k > 0
        THEN StdParse(ReplaceDE(Take(token, k))).val
        ELSE Zero

\* The block has its three line terminators and the two bounds of line 1
\* can be read.
RangeReadable(s) ==
    /\ Cardinality(Newlines(s)) >= 3
    /\ LET low == parse_spaced_float(space0(LineOf(s, 1)).rest)
       IN  low.st = "Ok" /\ parse_spaced_float(low.rest).st = "Ok"

\* C5: whatever the tokens of line 2 are, a readable block parses, the
\* coefficient array has its 7 slots 0..6, and slot i (i in 0..4) is the
\* decoded i-th token of line 2 when that token exists and decodes as a
\* D-exponent literal, 0.0 otherwise.
C5_Line2SlotsByPosition ==
    (pc = "done" /\ out.op = "parse_temperature_range" /\ RangeReadable(input)) =>
        LET line2 == LineOf(input, 2)
        IN  /\ out.res.st = "Ok"
            /\ DOMAIN out.res.val.coefficients = 0..6
            /\ \A i \in 0..4 :
                   out.res.val.coefficients[i] = SlotFrom(line2, i)

\* C5 happens: line 2 has an undecodable token between decodable ones, and
\* fewer than 5 tokens; the later token keeps its slot and the missing
\* slots are 0.0.
C5_Witness ==
    /\ pc = "done" /\ out.op = "parse_temperature_range" /\ RangeReadable(input)
    /\ Cardinality(TokenStarts(LineOf(input, 2))) = 3
    /\ out.res.st = "Ok"
    /\ out.res.val.coefficients[0] # Zero
    /\ out.res.val.coefficients[1] = Zero
    /\ out.res.val.coefficients[2] # Zero
    /\ out.res.val.coefficients[2] # out.res.val.coefficients[0]
    /\ out.res.val.coefficients[3] = Zero
    /\ out.res.val.coefficients[4] = Zero

\* C9, as amended: the first 2 tokens of line 3 are decoded into
\* coefficient slots 5 and 6; the last 2 tokens are decoded into the
\* integration constants only when the line has at least 4 tokens, and on
\* a shorter line both constants stay 0.0, so that no token is the source
\* of a coefficient slot and of an integration constant at once.
C9_Line3Positional ==
    (pc = "done" /\ out.op = "parse_temperature_range" /\ out.res.st = "Ok") =>
        LET t == LineOf(input, 3)
            n == Cardinality(TokenStarts(t))
        IN  /\ \A i \in 0..1 : out.res.val.coefficients[5 + i] = SlotFrom(t, i)
            /\ \A i \in 0..1 :
                   out.res.val.integration_constants[i] =
                       IF n >= 4 THEN SlotFrom(t, n - 2 + i) ELSE Zero

\* C9 happens: line 3 has exactly 3 tokens that all decode; slots 5 and 6
\* are filled and both integration constants are 0.0.
C9_Witness ==
    /\ pc = "done" /\ out.op = "parse_temperature_range" /\ out.res.st = "Ok"
    /\ Cardinality(TokenStarts(LineOf(input, 3))) = 3
    /\ \A i \in 0..2 : SlotFrom(LineOf(input, 3), i) # Zero
    /\ out.res.val.coefficients[5] # Zero
    /\ out.res.val.coefficients[6] # Zero
    /\ out.res.val.integration_constants = [i \in 0..1 |-> Zero]

\* C9, as stated: on a short line (2 or 3 tokens) the last 2 tokens are
\* decoded into the integration constants as well, so that a token among
\* the first 2 is the source of a coefficient slot and of a constant.
C9_ShortLineSharesToken ==
    (pc = "done" /\ out.op = "parse_temperature_range" /\ out.res.st = "Ok"
     /\ Cardinality(TokenStarts(LineOf(input, 3))) \in 2..3) =>
        LET t == LineOf(input, 3)
            n == Cardinality(TokenStarts(t))
        IN  \A i \in 0..1 :
                out.res.val.integration_constants[i] = SlotFrom(t, n - 2 + i)

---------------------------------------------------------------------------
(* Whole files: the buffer is written chunk by chunk, at most MaxChunks    *)
(* chunks: the file header, species header lines (with a description ended *)
(* by a blank, by the line end, or with tabs as separators), 3-line        *)
(* temperature-range blocks (two that parse, one whose second bound cannot *)
(* be decoded, one cut before the terminator of its third line) and END    *)
(* lines.  shape records the kinds of the chunks written.                  *)

MaxChunks == 5

FText(k) ==
    CASE k = "header" ->
        <<"t", "h", "e", "r", "m", "o", "\n", " ", "1", " ", "2", " ", "3", " ", "4", " ", "d", "\n">>    \* 'thermo\n 1 2 3 4 d\n'
      [] k = "species" ->
        <<"N", "2", " ", "d", " ", "N", " ", "2", " ", "2", "8", " ", "0", "\n">>    \* 'N2 d N 2 28 0\n'
      [] k = "species_nl" ->
        <<"O", "2", " ", "g", "a", "s", "\n">>    \* 'O2 gas\n'
      [] k = "species_tab" ->
        <<"A", "r", "\t", "g", "a", "s", "\t", "A", "r", " ", "1", " ", "4", "0", "\n">>    \* 'Ar\tgas\tAr 1 40\n'
      [] k = "range" ->
        <<" ", "1", " ", "2", " ", "x", "\n", " ", "1", "D", "0", " ", "2", "D", "0", "\n", " ", "3", "D", "0", "\n">>    \* ' 1 2 x\n 1D0 2D0\n 3D0\n'
      [] k = "range_hi" ->
        <<"2", " ", "6", "\n", " ", "5", "D", "-", "1", "\n", " ", "0", "D", "0", " ", "0", "D", "0", " ", "1", "D", "0", " ", "2", "D", "0", "\n">>    \* '2 6\n 5D-1\n 0D0 0D0 1D0 2D0\n'
      [] k = "range_nobound" ->
        <<" ", "1", " ", "x", "\n", " ", "1", "D", "0", "\n", " ", "3", "D", "0", "\n">>    \* ' 1 x\n 1D0\n 3D0\n'
      [] k = "range_cut" ->
        <<" ", "1", " ", "2", "\n", " ", "1", "D", "0", "\n", " ", "3", "D", "0">>    \* ' 1 2\n 1D0\n 3D0'
      [] k = "end_products" ->
        <<"E", "N", "D", " ", "P", "R", "O", "D", "U", "C", "T", "S", "\n">>    \* 'END PRODUCTS\n'
      [] k = "end_reactants" ->
        <<"E", "N", "D", " ", "R", "E", "A", "C", "T", "A", "N", "T", "S", "\n">>    \* 'END REACTANTS\n'

SpeciesKinds == {"species", "species_nl", "species_tab"}

RangeKinds == {"range", "range_hi"}

BrokenKinds == {"range_nobound", "range_cut"}

EndKinds == {"end_products", "end_reactants"}

FileHeader ==
    /\ pc = "read" /\ shape = <<>>
    /\ input' = input \o FText("header")
    /\ shape' = <<"header">>
    /\ UNCHANGED <<pc, out>>

FileSpecies ==
    /\ pc = "read" /\ Len(shape) < MaxChunks
    /\ IF shape = <<>> THEN TRUE ELSE Last(shape) # "range_cut"
    /\ \E k \in SpeciesKinds :
           /\ input' = input \o FText(k)
           /\ shape' = Append(shape, k)
    /\ UNCHANGED <<pc, out>>

FileRange ==
    /\ pc = "read" /\ Len(shape) < MaxChunks
    /\ shape # <<>> /\ Last(shape) \in SpeciesKinds \cup RangeKinds
    /\ \E k \in RangeKinds :
           /\ input' = input \o FText(k)
           /\ shape' = Append(shape, k)
    /\ UNCHANGED <<pc, out>>

FileBrokenRange ==
    /\ pc = "read" /\ Len(shape) < MaxChunks
    /\ shape # <<>> /\ Last(shape) \in SpeciesKinds \cup RangeKinds
    /\ \E k \in BrokenKinds :
           /\ input' = input \o FText(k)
           /\ shape' = Append(shape, k)
    /\ UNCHANGED <<pc, out>>

FileEnd ==
    /\ pc = "read" /\ Len(shape) < MaxChunks
    /\ shape # <<>> /\ Last(shape) # "range_cut"
    /\ \E k \in EndKinds :
           /\ input' = input \o FText(k)
           /\ shape' = Append(shape, k)
    /\ UNCHANGED <<pc, out>>

CallParseSpeciesHeader ==
    /\ pc = "read"
    /\ pc' = "done"
    /\ out' = [op |-> "parse_species_header", res |-> parse_species_header(input)]
    /\ UNCHANGED <<input, shape>>

FileNext ==
    \/ FileHeader \/ FileSpecies \/ FileRange \/ FileBrokenRange \/ FileEnd
    \/ CallParseSpeciesHeader \/ CallParseThermoFile

SpecFile == Init /\ [][FileNext]_vars

\* The name on the header line of each kind.
NameOf(k) ==
    CASE k = "species" -> <<"N", "2">>
      [] k = "species_nl" -> <<"O", "2">>
      [] k = "species_tab" -> <<"A", "r">>

\* The lower bound on line 1 of each kind of block that parses.
LowOf(k) ==
    CASE k = "range" -> StdParse(<<"1">>).val
      [] k = "range_hi" -> StdParse(<<"2">>).val

\* The positions in q of the chunks whose kind is in K.
ChunksOf(q, K) == {p \in 1..Len(q) : q[p] \in K}

\* The chunks of q that follow the species header line at p, up to the
\* next species header line.
RecordOf(q, p) ==
    SubSeq(q, p + 1,
           IF \E r \in ChunksOf(q, SpeciesKinds) : r > p
           THEN (CHOOSE r \in ChunksOf(q, SpeciesKinds) :
                     r > p /\ \A r2 \in ChunksOf(q, SpeciesKinds) : r2 > p => r <= r2) - 1
           ELSE Len(q))

\* The number of characters of the chunks of q before position p.
RECURSIVE LenBefore(_, _)
LenBefore(q, p) ==
    IF p <= 1 THEN 0 ELSE LenBefore(q, p - 1) + Len(FText(q[p - 1]))

\* A valid header followed by species records with blocks that parse, up
\* to the end of the text.
RecordsOnly(q) ==
    /\ q # <<>> /\ q[1] = "header"
    /\ \A p \in 2..Len(q) : q[p] \in SpeciesKinds \cup RangeKinds

\* C6: a valid header followed by n species records, each a header line
\* with an alphabetic name followed by k_i 3-line blocks, gives exactly n
\* species in file order, the i-th with exactly k_i temperature ranges in
\* file order.
C6_RecordsInFileOrder ==
    (pc = "done" /\ out.op = "parse_thermo_file" /\ RecordsOnly(shape)) =>
        LET at == ChunksOf(shape, SpeciesKinds)
            n == Cardinality(at)
        IN  /\ out.res.st = "Ok"
            /\ Len(out.res.val.species) = n
            /\ \A i \in 1..n :
                   LET p == NthSmallest(at, i)
                       rec == RecordOf(shape, p)
                       sp == out.res.val.species[i]
                   IN  /\ sp.name = NameOf(shape[p])
                       /\ Len(sp.temperature_ranges) = Len(rec)
                       /\ \A j \in 1..Len(rec) :
                              sp.temperature_ranges[j].temp_low = LowOf(rec[j])

\* The first broken block of q, when q has one.
FirstBroken(q) == NthSmallest(ChunksOf(q, BrokenKinds), 1)

\* The species header line that the first broken block of q belongs to.
OwnerOf(q) ==
    CHOOSE p \in ChunksOf(q, SpeciesKinds) :
        /\ p < FirstBroken(q)
        /\ \A r \in ChunksOf(q, SpeciesKinds) : r < FirstBroken(q) => r <= p

\* A valid header, then species records, one of them with a broken block.
HasBrokenBlock(q) ==
    /\ q # <<>> /\ q[1] = "header"
    /\ ChunksOf(q, BrokenKinds) # {}
    /\ \A p \in 2..(FirstBroken(q) - 1) : q[p] \in SpeciesKinds \cup RangeKinds

\* C7, as amended: parse_temperature_range fails on a block that lacks a
\* line terminator or whose two bounds cannot be decoded, but the failure
\* does not propagate: parse_species ends the range list of the species
\* there and parse_thermo_file still returns Ok with that species; when
\* the header lines up to it have a description ended by a blank, the
\* species keeps exactly the ranges read before the broken block.
C7_BrokenBlockEndsRanges ==
    (pc = "done" /\ out.op = "parse_thermo_file" /\ HasBrokenBlock(shape)) =>
        LET b == FirstBroken(shape)
            o == OwnerOf(shape)
            s == Cardinality({p \in ChunksOf(shape, SpeciesKinds) : p <= o})
        IN  /\ parse_temperature_range(Drop(input, LenBefore(shape, b))).st # "Ok"
            /\ out.res.st = "Ok"
            /\ Len(out.res.val.species) >= 1
            /\ (\A p \in 2..b : shape[p] # "species_nl") =>
                   /\ Len(out.res.val.species) >= s
                   /\ out.res.val.species[s].name = NameOf(shape[o])
                   /\ Len(out.res.val.species[s].temperature_ranges) = b - o - 1

\* C7 happens: a species with a block that parses and then a broken block;
\* the file parses and the species has its one range.
C7_Witness ==
    /\ pc = "done" /\ out.op = "parse_thermo_file" /\ HasBrokenBlock(shape)
    /\ FirstBroken(shape) = 4 /\ shape[2] = "species" /\ shape[3] \in RangeKinds
    /\ out.res.st = "Ok"
    /\ Len(out.res.val.species) >= 1
    /\ Len(out.res.val.species[1].temperature_ranges) = 1

\* C7, as stated: a block that lacks a line terminator or whose two bounds
\* cannot be decoded makes parse_thermo_file return an error.
C7_BrokenBlockAbortsParse ==
    (pc = "done" /\ out.op = "parse_thermo_file" /\ HasBrokenBlock(shape)) =>
        out.res.st # "Ok"

\* A valid header, at least one species record with a description ended by
\* a blank and blocks that parse, then an END line.
RecordsThenEnd(q) ==
    /\ q # <<>> /\ q[1] = "header"
    /\ ChunksOf(q, EndKinds) # {}
    /\ NthSmallest(ChunksOf(q, EndKinds), 1) > 2
    /\ \A p \in 2..(NthSmallest(ChunksOf(q, EndKinds), 1) - 1) :
           q[p] \in {"species", "species_tab"} \cup RangeKinds

\* C8: when the species records are followed by a line that starts with
\* END, the species returned are exactly the records before that line and
\* none of them is named END.
C8_EndStopsCollection ==
    (pc = "done" /\ out.op = "parse_thermo_file" /\ RecordsThenEnd(shape)) =>
        /\ out.res.st = "Ok"
        /\ Len(out.res.val.species) =
               Cardinality({p \in ChunksOf(shape, SpeciesKinds) :
                               p < NthSmallest(ChunksOf(shape, EndKinds), 1)})
        /\ \A i \in 1..Len(out.res.val.species) :
               out.res.val.species[i].name # <<"E", "N", "D">>

\* C10: whenever the species header parses, its description has no
\* whitespace character (no blank, tab or line terminator).
C10_DescriptionHasNoWhitespace ==
    (pc = "done" /\ out.op = "parse_species_header" /\ out.res.st = "Ok") =>
        \A i \in 1..Len(out.res.val.description) :
            out.res.val.description[i] \notin Whitespace

=============================================================================
